---- MODULE Spec2Model ----
(***************************************************************************)
(* FemPosDeviationSqpOsqpInterface::Solve and the matrix builders it       *)
(* calls (fem_pos_deviation_sqp_osqp_interface.cc).                        *)
(*                                                                         *)
(* Vectors are sequences: C++ index i is TLA+ index i + 1.  c_float values *)
(* are integers (every coefficient the builders compute is an integer      *)
(* combination of the weights and coordinates).  The OSQP solver is an     *)
(* external collaborator: what it returns (status, objective, primal       *)
(* solution) is drawn from small sets.                                     *)
(***************************************************************************)
EXTENDS Integers, Sequences, FiniteSets, TLC

\* ------------------------------------------------------------------ bounds
MaxPoints == 5
MaxSqpIter == 2
MaxResolves == 3
MaxCalls == 2

\* -1e20, the lower bound the slack loop writes; any value below every
\* coordinate of the model stands for it.
kLargeNegative == -1000000

VARIABLES
  \* configuration and inputs (members set by the caller)
  ref_points_, bounds_around_refs_,
  weight_fem_pos_deviation_, weight_path_length_, weight_ref_deviation_,
  weight_curvature_constraint_slack_var_,
  sqp_max_iter_, sqp_jtol_,
  \* problem-size members
  num_of_points_, num_of_pos_variables_, num_of_slack_variables_,
  num_of_variables_, num_of_variable_constraints_,
  num_of_curvature_constraints_, num_of_constraints_,
  \* stored result
  x_, y_,
  \* locals of Solve() and CalculateKernel()
  columns, col_num, P_data, P_indices, P_indptr, q,
  A_data, A_indices, A_indptr, lower_bounds, upper_bounds,
  primal_warm_start, work, itr, last_jvalue,
  \* control
  pc, ret, exit_path,
  \* observation of the call in progress
  calls, allocd, freed, solver_ops, resolves, accepted, last_accepted,
  warm_arg, prev_solution, pre

configVars == <<weight_fem_pos_deviation_, weight_path_length_,
                weight_ref_deviation_, weight_curvature_constraint_slack_var_,
                sqp_max_iter_, sqp_jtol_>>
inputVars == <<ref_points_, bounds_around_refs_>>
sizeVars == <<num_of_points_, num_of_pos_variables_, num_of_slack_variables_,
              num_of_variables_, num_of_variable_constraints_,
              num_of_curvature_constraints_, num_of_constraints_>>
resultVars == <<x_, y_>>
kernelVars == <<columns, col_num, P_data, P_indices, P_indptr>>
matrixVars == <<q, A_data, A_indices, A_indptr, lower_bounds, upper_bounds,
                primal_warm_start>>
loopVars == <<work, itr, last_jvalue>>
heapVars == <<allocd, freed>>
traceVars == <<solver_ops, resolves, accepted, last_accepted, warm_arg,
               prev_solution>>
vars == <<configVars, inputVars, sizeVars, resultVars, kernelVars, matrixVars,
          loopVars, heapVars, traceVars, pc, ret, exit_path, calls, pre>>

\* ----------------------------------------------------------------- helpers
Abs(v) == IF v < 0 THEN -v ELSE v

\* std::numeric_limits<int>::max(), scaled down to just above the largest
\* problem the model builds: a vector longer than this stands for every
\* vector longer than INT_MAX.  Only its size is ever read.
numeric_limits_int_max == MaxPoints + 1

empty(v) == Len(v) = 0

\* The resources of one call: the OSQP workspace, the two csc matrix
\* headers, OSQPData and OSQPSettings.
Resources == {"work", "A", "P", "data", "settings"}
NoneHeld == [r \in Resources |-> 0]

\* ------------------------------------------------------------- input sets
RefShape(n, s) == [i \in 1..n |-> <<10 * i, s * i * i>>]
RadiusShape(n, r) == [i \in 1..n |-> r + (i % 2)]

Requests ==
  {<<RefShape(n, s), RadiusShape(n, s + 1)>> : n \in 3..MaxPoints, s \in {0, 1}}
  \cup {<<RefShape(n, 0), RadiusShape(n, 1)>> : n \in 0..2}
  \cup {<<RefShape(n, 0), RadiusShape(n - 1, 1)>> : n \in {1, 4}}
  \cup {<<RefShape(n, 0), RadiusShape(n + 1, 1)>> : n \in {0, 3}}
  \cup {<<RefShape(numeric_limits_int_max + 1, 0),
           RadiusShape(numeric_limits_int_max + 1, 1)>>,
         <<RefShape(numeric_limits_int_max + 1, 0), RadiusShape(3, 1)>>}

WeightChoices == {<<1, 2, 4>>, <<3, 0, 1>>, <<0, 0, 0>>}
JtolChoices == {<<1, 10>>}

\* osqp status_val: 1 solved, 2 solved inaccurate, 3 primal infeasible
\* inaccurate, -3 primal infeasible
StatusChoices == {-3, 1, 2, 3}
ObjChoices == {0, 2, 3}
DeltaChoices == {0, 1}

SizesSnapshot ==
  <<num_of_points_, num_of_pos_variables_, num_of_slack_variables_,
    num_of_variables_, num_of_variable_constraints_,
    num_of_curvature_constraints_, num_of_constraints_>>

\* -------------------------------------------------------------------- Init
Init ==
  /\ ref_points_ = <<>>
  /\ bounds_around_refs_ = <<>>
  /\ \E w \in WeightChoices :
       /\ weight_fem_pos_deviation_ = w[1]
       /\ weight_path_length_ = w[2]
       /\ weight_ref_deviation_ = w[3]
  /\ weight_curvature_constraint_slack_var_ = 1
  /\ sqp_max_iter_ \in 0..MaxSqpIter
  /\ sqp_jtol_ \in JtolChoices
  /\ num_of_points_ = 0
  /\ num_of_pos_variables_ = 0
  /\ num_of_slack_variables_ = 0
  /\ num_of_variables_ = 0
  /\ num_of_variable_constraints_ = 0
  /\ num_of_curvature_constraints_ = 0
  /\ num_of_constraints_ = 0
  /\ x_ = <<>>
  /\ y_ = <<>>
  /\ columns = <<>>
  /\ col_num = 0
  /\ P_data = <<>>
  /\ P_indices = <<>>
  /\ P_indptr = <<>>
  /\ q = <<>>
  /\ A_data = <<>>
  /\ A_indices = <<>>
  /\ A_indptr = <<>>
  /\ lower_bounds = <<>>
  /\ upper_bounds = <<>>
  /\ primal_warm_start = <<>>
  /\ work = "none"
  /\ itr = 0
  /\ last_jvalue = 0
  /\ pc = "idle"
  /\ ret = FALSE
  /\ exit_path = "none"
  /\ calls = 0
  /\ allocd = NoneHeld
  /\ freed = NoneHeld
  /\ solver_ops = 0
  /\ resolves = 0
  /\ accepted = 0
  /\ last_accepted = <<>>
  /\ warm_arg = <<>>
  /\ prev_solution = <<>>
  /\ pre = [x |-> <<>>, y |-> <<>>, sizes |-> <<0, 0, 0, 0, 0, 0, 0>>]

\* ------------------------------------------------------ the caller's step
\* Locals of Solve() go out of scope when it returns.
LocalsGone ==
  /\ columns' = <<>>
  /\ col_num' = 0
  /\ P_data' = <<>>
  /\ P_indices' = <<>>
  /\ P_indptr' = <<>>
  /\ q' = <<>>
  /\ A_data' = <<>>
  /\ A_indices' = <<>>
  /\ A_indptr' = <<>>
  /\ lower_bounds' = <<>>
  /\ upper_bounds' = <<>>
  /\ primal_warm_start' = <<>>
  /\ work' = "none"
  /\ itr' = 0
  /\ last_jvalue' = 0

\* The caller stores the reference points and bounds and calls Solve().
Call ==
  /\ pc \in {"idle", "done"}
  /\ calls < MaxCalls
  /\ \E req \in Requests :
       /\ ref_points_' = req[1]
       /\ bounds_around_refs_' = req[2]
  /\ calls' = calls + 1
  /\ pre' = [x |-> x_, y |-> y_, sizes |-> SizesSnapshot]
  /\ allocd' = NoneHeld
  /\ freed' = NoneHeld
  /\ solver_ops' = 0
  /\ resolves' = 0
  /\ accepted' = 0
  /\ last_accepted' = <<>>
  /\ warm_arg' = <<>>
  /\ prev_solution' = <<>>
  /\ pc' = "entry"
  /\ ret' = FALSE
  /\ exit_path' = "none"
  /\ UNCHANGED <<configVars, sizeVars, resultVars, kernelVars, matrixVars,
                 loopVars>>

\* ------------------------------------------------ Solve(): sanity checks
\* The sanity checks placed after num_of_points_ is set.
RejectInputAfterSizing(path) ==
  /\ pc' = "done"
  /\ ret' = FALSE
  /\ exit_path' = path
  /\ num_of_points_' = Len(ref_points_)
  /\ UNCHANGED <<configVars, inputVars, num_of_pos_variables_,
                 num_of_slack_variables_, num_of_variables_,
                 num_of_variable_constraints_, num_of_curvature_constraints_,
                 num_of_constraints_, resultVars, kernelVars,
                 matrixVars, loopVars, heapVars, traceVars, calls, pre>>

\* return false from a sanity check
RejectInput(path) ==
  /\ pc' = "done"
  /\ ret' = FALSE
  /\ exit_path' = path
  /\ UNCHANGED <<configVars, inputVars, sizeVars, resultVars, kernelVars,
                 matrixVars, loopVars, heapVars, traceVars, calls, pre>>

RejectEmpty ==
  /\ pc = "entry"
  /\ empty(ref_points_)
  /\ RejectInput("empty")

RejectSizeMismatch ==
  /\ pc = "entry"
  /\ ~empty(ref_points_)
  /\ Len(ref_points_) # Len(bounds_around_refs_)
  /\ RejectInput("size_mismatch")

RejectTooFew ==
  /\ pc = "entry"
  /\ ~empty(ref_points_)
  /\ ~(Len(ref_points_) # Len(bounds_around_refs_))
  /\ Len(ref_points_) < 3
  /\ RejectInput("too_few")

RejectTooLarge ==
  /\ pc = "entry"
  /\ ~empty(ref_points_)
  /\ ~(Len(ref_points_) # Len(bounds_around_refs_))
  /\ ~(Len(ref_points_) < 3)
  /\ Len(ref_points_) > numeric_limits_int_max
  /\ RejectInput("too_large")

\* Calculate optimization states definitions
ComputeSizes ==
  /\ pc = "entry"
  /\ ~empty(ref_points_)
  /\ ~(Len(ref_points_) # Len(bounds_around_refs_))
  /\ ~(Len(ref_points_) < 3)
  /\ ~(Len(ref_points_) > numeric_limits_int_max)
  /\ num_of_points_' = Len(ref_points_)
  /\ num_of_pos_variables_' = num_of_points_' * 2
  /\ num_of_slack_variables_' = num_of_points_' - 2
  /\ num_of_variables_' = num_of_pos_variables_' + num_of_slack_variables_'
  /\ num_of_variable_constraints_' = num_of_variables_'
  /\ num_of_curvature_constraints_' = num_of_points_' - 2
  /\ num_of_constraints_' =
       num_of_variable_constraints_' + num_of_curvature_constraints_'
  /\ pc' = "kernel"
  /\ UNCHANGED <<configVars, inputVars, resultVars, kernelVars, matrixVars,
                 loopVars, heapVars, traceVars, ret, exit_path, calls, pre>>


\* ------------------------------------------------------- CalculateKernel
\* columns[col].emplace_back(row, value)
Emplace(cols, col, row, value) ==
  [cols EXCEPT ![col + 1] = Append(@, <<row, value>>)]

\* for (int col = 0; col < 2; ++col): the first point
RECURSIVE FirstPointLoop(_, _)
FirstPointLoop(st, col) ==
  IF ~(col < 2) THEN st
  ELSE FirstPointLoop(
         [columns |-> Emplace(st.columns, col, col,
                              weight_fem_pos_deviation_ + weight_path_length_
                                + weight_ref_deviation_),
          col_num |-> st.col_num + 1],
         col + 1)

\* for (int col = 2; col < 4; ++col): the second point
RECURSIVE SecondPointLoop(_, _)
SecondPointLoop(st, col) ==
  IF ~(col < 4) THEN st
  ELSE LET c1 == Emplace(st.columns, col, col - 2,
                         -2 * weight_fem_pos_deviation_ - weight_path_length_)
           c2 == Emplace(c1, col, col,
                         5 * weight_fem_pos_deviation_
                           + 2 * weight_path_length_ + weight_ref_deviation_)
       IN  SecondPointLoop([columns |-> c2, col_num |-> st.col_num + 1],
                           col + 1)

\* the inner loop of the interior points: col_index += col
RECURSIVE InteriorColLoop(_, _, _)
InteriorColLoop(st, col_index_in, col) ==
  IF ~(col < 2) THEN st
  ELSE LET col_index == col_index_in + col
           c1 == Emplace(st.columns, col_index, col_index - 4,
                         weight_fem_pos_deviation_)
           c2 == Emplace(c1, col_index, col_index - 2,
                         -4 * weight_fem_pos_deviation_ - weight_path_length_)
           c3 == Emplace(c2, col_index, col_index,
                         6 * weight_fem_pos_deviation_
                           + 2 * weight_path_length_ + weight_ref_deviation_)
       IN  InteriorColLoop([columns |-> c3, col_num |-> st.col_num + 1],
                           col_index, col + 1)

\* for (point_index = 2; point_index < second_point_from_last_index; ...)
RECURSIVE InteriorPointLoop(_, _, _)
InteriorPointLoop(st, point_index, second_point_from_last_index) ==
  IF ~(point_index < second_point_from_last_index) THEN st
  ELSE InteriorPointLoop(InteriorColLoop(st, point_index * 2, 0),
                         point_index + 1, second_point_from_last_index)

\* for (col = second_point_col_from_last_col;
\*      col < last_point_col_from_last_col; ++col)
RECURSIVE SecondFromLastLoop(_, _, _)
SecondFromLastLoop(st, col, last_point_col_from_last_col) ==
  IF ~(col < last_point_col_from_last_col) THEN st
  ELSE LET c1 == Emplace(st.columns, col, col - 4, weight_fem_pos_deviation_)
           c2 == Emplace(c1, col, col - 2,
                         -4 * weight_fem_pos_deviation_ - weight_path_length_)
           c3 == Emplace(c2, col, col,
                         5 * weight_fem_pos_deviation_
                           + 2 * weight_path_length_ + weight_ref_deviation_)
       IN  SecondFromLastLoop([columns |-> c3, col_num |-> st.col_num + 1],
                              col + 1, last_point_col_from_last_col)

\* for (col = last_point_col_from_last_col; col < num_of_pos_variables_; ...)
RECURSIVE LastPointLoop(_, _)
LastPointLoop(st, col) ==
  IF ~(col < num_of_pos_variables_) THEN st
  ELSE LET c1 == Emplace(st.columns, col, col - 4, weight_fem_pos_deviation_)
           c2 == Emplace(c1, col, col - 2,
                         -2 * weight_fem_pos_deviation_ - weight_path_length_)
           c3 == Emplace(c2, col, col,
                         weight_fem_pos_deviation_ + weight_path_length_
                           + weight_ref_deviation_)
       IN  LastPointLoop([columns |-> c3, col_num |-> st.col_num + 1],
                         col + 1)

\* The column lists and the column counter as they stand at
\* CHECK_EQ(col_num, num_of_pos_variables_).
KernelColumns ==
  LET s0 == [columns |-> [i \in 1..num_of_variables_ |-> <<>>], col_num |-> 0]
      s1 == FirstPointLoop(s0, 0)
      s2 == SecondPointLoop(s1, 2)
      s3 == InteriorPointLoop(s2, 2, num_of_points_ - 2)
      s4 == SecondFromLastLoop(s3, num_of_pos_variables_ - 4,
                               num_of_pos_variables_ - 2)
  IN  LastPointLoop(s4, num_of_pos_variables_ - 2)

\* for (int i = 0; i < col_num; ++i): the compressed-column arrays
RECURSIVE EmitColumns(_, _, _, _)
EmitColumns(cols, cn, i, out) ==
  IF ~(i < cn) THEN [out EXCEPT !.indptr = Append(@, Len(out.data))]
  ELSE EmitColumns(
         cols, cn, i + 1,
         [indptr |-> Append(out.indptr, Len(out.data)),
          data |-> out.data
                     \o [k \in 1..Len(cols[i + 1]) |-> cols[i + 1][k][2] * 2],
          indices |-> out.indices
                     \o [k \in 1..Len(cols[i + 1]) |-> cols[i + 1][k][1]]])

\* CHECK_EQ(col_num, num_of_pos_variables_) holds: the arrays are emitted.
CalculateKernel ==
  /\ pc = "kernel"
  /\ LET k == KernelColumns
         out == EmitColumns(k.columns, k.col_num, 0,
                            [indptr |-> <<>>, data |-> <<>>, indices |-> <<>>])
     IN  /\ k.col_num = num_of_pos_variables_
         /\ columns' = k.columns
         /\ col_num' = k.col_num
         /\ P_data' = out.data
         /\ P_indices' = out.indices
         /\ P_indptr' = out.indptr
  /\ pc' = "affine"
  /\ UNCHANGED <<configVars, inputVars, sizeVars, resultVars, matrixVars,
                 loopVars, heapVars, traceVars, ret, exit_path, calls, pre>>

\* CHECK_EQ(col_num, num_of_pos_variables_) fails: the process aborts.
CalculateKernelCheckFails ==
  /\ pc = "kernel"
  /\ LET k == KernelColumns
     IN  /\ k.col_num # num_of_pos_variables_
         /\ columns' = k.columns
         /\ col_num' = k.col_num
  /\ pc' = "aborted"
  /\ exit_path' = "check_failed"
  /\ UNCHANGED <<configVars, inputVars, sizeVars, resultVars, P_data,
                 P_indices, P_indptr, matrixVars, loopVars, heapVars,
                 traceVars, ret, calls, pre>>


\* ---------------------------------- offset, affine constraint, warm start
\* v.resize(n) of an empty vector: n value-initialised (zero) elements
Zeros(n) == [k \in 1..n |-> 0]

\* for (i = 0; i < hi; ++i) { v[2 * i] = vals[i].first;
\*                            v[2 * i + 1] = vals[i].second; }
RECURSIVE SetPairs(_, _, _, _)
SetPairs(v, i, hi, vals) ==
  IF ~(i < hi) THEN v
  ELSE SetPairs([v EXCEPT ![2 * i + 1] = vals[i + 1][1],
                          ![2 * i + 2] = vals[i + 1][2]],
                i + 1, hi, vals)

\* for (i = 0; i < hi; ++i) v[base + i] = value;
RECURSIVE SetRun(_, _, _, _, _)
SetRun(v, i, hi, base, value) ==
  IF ~(i < hi) THEN v
  ELSE SetRun([v EXCEPT ![base + i + 1] = value], i + 1, hi, base, value)

CalculateOffset ==
  LET q0 == Zeros(num_of_variables_)
      q1 == SetPairs(q0, 0, num_of_points_,
                     [i \in 1..num_of_points_ |->
                        <<-2 * weight_ref_deviation_ * ref_points_[i][1],
                          -2 * weight_ref_deviation_ * ref_points_[i][2]>>])
  IN  SetRun(q1, 0, num_of_slack_variables_, num_of_pos_variables_,
             weight_curvature_constraint_slack_var_)

\* The row at which the second loop of CalculateAffineConstraint starts to
\* write the slack bounds: (*upper_bounds)[i], (*lower_bounds)[i].
SlackBoundBase == 0

CalculateAffineConstraint ==
  LET u0 == Zeros(num_of_constraints_)
      l0 == Zeros(num_of_constraints_)
      u1 == SetPairs(u0, 0, num_of_points_,
                     [i \in 1..num_of_points_ |->
                        <<ref_points_[i][1] + bounds_around_refs_[i],
                          ref_points_[i][2] + bounds_around_refs_[i]>>])
      l1 == SetPairs(l0, 0, num_of_points_,
                     [i \in 1..num_of_points_ |->
                        <<ref_points_[i][1] - bounds_around_refs_[i],
                          ref_points_[i][2] - bounds_around_refs_[i]>>])
  IN  [A_data |-> [k \in 1..num_of_variables_ |-> 1],
       A_indices |-> [k \in 1..num_of_variables_ |-> k - 1],
       A_indptr |-> [k \in 1..(num_of_variables_ + 1) |-> k - 1],
       upper_bounds |->
         SetRun(u1, 0, num_of_slack_variables_, SlackBoundBase, 1),
       lower_bounds |->
         SetRun(l1, 0, num_of_slack_variables_, SlackBoundBase,
                kLargeNegative)]

SetPrimalWarmStart ==
  SetPairs(Zeros(num_of_variables_), 0, Len(ref_points_), ref_points_)

\* Solve(): "Calculate offset" to "Set primal warm start"
BuildVectors ==
  /\ pc = "affine"
  /\ q' = CalculateOffset
  /\ LET a == CalculateAffineConstraint
     IN  /\ A_data' = a.A_data
         /\ A_indices' = a.A_indices
         /\ A_indptr' = a.A_indptr
         /\ lower_bounds' = a.lower_bounds
         /\ upper_bounds' = a.upper_bounds
  /\ primal_warm_start' = SetPrimalWarmStart
  /\ pc' = "setup"
  /\ UNCHANGED <<configVars, inputVars, sizeVars, resultVars, kernelVars,
                 loopVars, heapVars, traceVars, ret, exit_path, calls, pre>>


\* ------------------------------------------------------- the solver calls
\* What osqp_solve can leave in the workspace after a warm start at ws.
SolveOutcomes(ws) ==
  {[status_val |-> st, obj_val |-> o,
    x |-> [k \in 1..num_of_variables_ |-> ws[k] + d]] :
      st \in StatusChoices, o \in ObjChoices, d \in DeltaChoices}

\* OptimizeWithOsqp: the two status tests both pass
StatusAccepted(status) == ~(status < 0) /\ ~(status # 1 /\ status # 2)

\* The extraction reading x_ from index + 1.
ExtractXFromYSlot(solution) ==
  [i \in 1..num_of_points_ |-> solution[2 * (i - 1) + 2]]

\* OptimizeWithOsqp: "Extract primal results"
ExtractX(solution) == [i \in 1..num_of_points_ |-> solution[2 * (i - 1) + 1]]
ExtractY(solution) == [i \in 1..num_of_points_ |-> solution[2 * (i - 1) + 2]]

\* The release sequence without c_free(data->P).
ReleaseAllButP ==
  freed' = [r \in Resources |-> IF r = "P" THEN freed[r] ELSE freed[r] + 1]

\* osqp_cleanup(work); c_free(data->A); c_free(data->P); c_free(data);
\* c_free(settings);
ReleaseAll == freed' = [r \in Resources |-> freed[r] + 1]

Return(value, path) ==
  /\ pc' = "done"
  /\ ret' = value
  /\ exit_path' = path
  /\ LocalsGone

\* eps < sqp_jtol_ with eps = |(last - cur) / last|; a zero last_jvalue makes
\* eps NaN or infinite, and the comparison false.
EpsBelowTol(last, cur) ==
  /\ last # 0
  /\ Abs(last - cur) * sqp_jtol_[2] < sqp_jtol_[1] * Abs(last)

\* "Load matrices and vectors into OSQPData" to osqp_setup
Setup ==
  /\ pc = "setup"
  /\ allocd' = [r \in Resources |-> allocd[r] + 1]
  /\ solver_ops' = solver_ops + 1
  /\ work' = [status_val |-> -10, obj_val |-> 0, x |-> <<>>]
  /\ pc' = "initial"
  /\ UNCHANGED <<configVars, inputVars, sizeVars, resultVars, kernelVars,
                 matrixVars, itr, last_jvalue, freed, resolves, accepted,
                 last_accepted, warm_arg, prev_solution, ret, exit_path,
                 calls, pre>>

\* osqp_setup reads n + 1 column pointers of P and P_indptr holds fewer: the
\* read past its end can also end the process (or return no workspace, which
\* OptimizeWithOsqp then dereferences).
SetupFault ==
  /\ pc = "setup"
  /\ Len(P_indptr) < num_of_variables_ + 1
  /\ allocd' = [r \in Resources |-> IF r = "work" THEN 0 ELSE allocd[r] + 1]
  /\ solver_ops' = solver_ops + 1
  /\ pc' = "crashed"
  /\ exit_path' = "setup_fault"
  /\ UNCHANGED <<configVars, inputVars, sizeVars, resultVars, kernelVars,
                 matrixVars, loopVars, freed, resolves, accepted,
                 last_accepted, warm_arg, prev_solution, ret, calls, pre>>

\* OptimizeWithOsqp(primal_warm_start, &work) returns false
InitialSolveFails ==
  /\ pc = "initial"
  /\ \E st \in StatusChoices : ~StatusAccepted(st)
  /\ warm_arg' = primal_warm_start
  /\ prev_solution' = work.x
  /\ solver_ops' = solver_ops + 2
  /\ ReleaseAll
  /\ Return(FALSE, "initial_solve_failed")
  /\ UNCHANGED <<configVars, inputVars, sizeVars, resultVars, allocd,
                 resolves, accepted, last_accepted, calls, pre>>

\* OptimizeWithOsqp(primal_warm_start, &work) returns true
InitialSolve ==
  /\ pc = "initial"
  /\ \E out \in SolveOutcomes(primal_warm_start) :
       /\ StatusAccepted(out.status_val)
       /\ work' = out
       /\ x_' = ExtractX(out.x)
       /\ y_' = ExtractY(out.x)
       /\ last_accepted' = out.x
       /\ last_jvalue' = out.obj_val
  /\ warm_arg' = primal_warm_start
  /\ prev_solution' = work.x
  /\ solver_ops' = solver_ops + 2
  /\ accepted' = accepted + 1
  /\ itr' = 1
  /\ pc' = "loop"
  /\ UNCHANGED <<configVars, inputVars, sizeVars, kernelVars, matrixVars,
                 heapVars, resolves, ret, exit_path, calls, pre>>

\* ------------------------------------------------------------ the SQP loop
\* UpdateAffineConstraint has an empty body: A_data and the bounds are as
\* built.  osqp_update_A, osqp_update_bounds, then OptimizeWithOsqp.
LoopBodyEnabled ==
  /\ pc = "loop"
  /\ itr < sqp_max_iter_
  /\ resolves < MaxResolves

SqpIterateFails ==
  /\ LoopBodyEnabled
  /\ \E st \in StatusChoices : ~StatusAccepted(st)
  /\ warm_arg' = primal_warm_start
  /\ prev_solution' = work.x
  /\ solver_ops' = solver_ops + 4
  /\ resolves' = resolves + 1
  /\ ReleaseAll
  /\ Return(FALSE, "iteration_failed")
  /\ UNCHANGED <<configVars, inputVars, sizeVars, resultVars, allocd,
                 accepted, last_accepted, calls, pre>>

SqpIterateConverged ==
  /\ LoopBodyEnabled
  /\ \E out \in SolveOutcomes(primal_warm_start) :
       /\ StatusAccepted(out.status_val)
       /\ EpsBelowTol(last_jvalue, out.obj_val)
       /\ x_' = ExtractX(out.x)
       /\ y_' = ExtractY(out.x)
       /\ last_accepted' = out.x
  /\ warm_arg' = primal_warm_start
  /\ prev_solution' = work.x
  /\ solver_ops' = solver_ops + 4
  /\ resolves' = resolves + 1
  /\ accepted' = accepted + 1
  /\ ReleaseAll
  /\ Return(TRUE, "converged")
  /\ UNCHANGED <<configVars, inputVars, sizeVars, allocd, calls, pre>>

\* eps >= sqp_jtol_: last_jvalue = work->info->obj_val and the loop goes
\* round; nothing in the body changes itr.
SqpIterateContinue ==
  /\ LoopBodyEnabled
  /\ \E out \in SolveOutcomes(primal_warm_start) :
       /\ StatusAccepted(out.status_val)
       /\ ~EpsBelowTol(last_jvalue, out.obj_val)
       /\ work' = out
       /\ x_' = ExtractX(out.x)
       /\ y_' = ExtractY(out.x)
       /\ last_accepted' = out.x
       /\ last_jvalue' = out.obj_val
  /\ warm_arg' = primal_warm_start
  /\ prev_solution' = work.x
  /\ solver_ops' = solver_ops + 4
  /\ resolves' = resolves + 1
  /\ accepted' = accepted + 1
  /\ UNCHANGED <<configVars, inputVars, sizeVars, kernelVars, matrixVars,
                 itr, heapVars, pc, ret, exit_path, calls, pre>>

\* while (itr < sqp_max_iter_) is false: "objective not converged"
SqpExhausted ==
  /\ pc = "loop"
  /\ ~(itr < sqp_max_iter_)
  /\ ReleaseAll
  /\ Return(FALSE, "not_converged")
  /\ UNCHANGED <<configVars, inputVars, sizeVars, resultVars, allocd,
                 traceVars, calls, pre>>

\* ------------------------------------------------------------------- Spec
Next ==
  \/ Call
  \/ RejectEmpty
  \/ RejectSizeMismatch
  \/ RejectTooFew
  \/ RejectTooLarge
  \/ ComputeSizes
  \/ CalculateKernel
  \/ CalculateKernelCheckFails
  \/ BuildVectors
  \/ Setup
  \/ SetupFault
  \/ InitialSolveFails
  \/ InitialSolve
  \/ SqpIterateFails
  \/ SqpIterateConverged
  \/ SqpIterateContinue
  \/ SqpExhausted

Spec == Init /\ [][Next]_vars


\* =============================================================== properties
ValidationPaths == {"empty", "size_mismatch", "too_few", "too_large"}

\* Solve() has built the problem it hands to osqp_setup.
ProblemBuilt == pc \in {"setup", "initial", "loop"}

\* CalculateKernel has reached its CHECK_EQ in the call in progress.
KernelRan == pc \in {"affine", "setup", "initial", "loop", "aborted", "crashed"}

\* C1: with every solve accepted, the SQP loop performs at most sqp_max_iter
\* re-solves and then Solve() returns: while the initial solve and every
\* re-solve so far were accepted, no more than sqp_max_iter re-solves have
\* been made.
C1_AtMostMaxIterResolves ==
  accepted = resolves + 1 => resolves <= sqp_max_iter_

\* C2: in the bounds handed to the solver, rows 2i and 2i+1 are
\* [ref_i - r_i, ref_i + r_i] on the x and y axis, for every point i.
C2_PositionRowsAreBoxes ==
  ProblemBuilt =>
    \A i \in 0..(Len(ref_points_) - 1) :
      /\ lower_bounds[2 * i + 1] = ref_points_[i + 1][1] - bounds_around_refs_[i + 1]
      /\ upper_bounds[2 * i + 1] = ref_points_[i + 1][1] + bounds_around_refs_[i + 1]
      /\ lower_bounds[2 * i + 2] = ref_points_[i + 1][2] - bounds_around_refs_[i + 1]
      /\ upper_bounds[2 * i + 2] = ref_points_[i + 1][2] + bounds_around_refs_[i + 1]

\* C3: every return after the session was set up has released the session
\* and the solver-owned data exactly once; a return from input validation
\* has created nothing; nothing is ever released that is not held.
C3_ReleasedExactlyOnce ==
  /\ \A r \in Resources : freed[r] <= allocd[r]
  /\ pc = "done" =>
       IF exit_path \in ValidationPaths
       THEN allocd = NoneHeld /\ freed = NoneHeld
       ELSE \A r \in Resources : allocd[r] = 1 /\ freed[r] = 1

C3_Witness ==
  /\ pc = "done"
  /\ exit_path = "iteration_failed"
  /\ \A r \in Resources : allocd[r] = 1 /\ freed[r] = 1

\* C4: an empty, mismatched, too short or too long reference sequence makes
\* Solve() return false with no matrix built, no solver operation invoked,
\* and the problem-size members and the stored result as before the call.
InputInvalid ==
  \/ Len(ref_points_) = 0
  \/ Len(ref_points_) # Len(bounds_around_refs_)
  \/ Len(ref_points_) < 3
  \/ Len(ref_points_) > numeric_limits_int_max

C4_InvalidInputRejectedUntouched ==
  (InputInvalid /\ pc \notin {"idle", "entry"}) =>
    /\ pc = "done"
    /\ ret = FALSE
    /\ exit_path \in ValidationPaths
    /\ solver_ops = 0
    /\ columns = <<>> /\ P_data = <<>> /\ P_indptr = <<>>
    /\ q = <<>> /\ A_data = <<>> /\ lower_bounds = <<>> /\ upper_bounds = <<>>
    /\ SizesSnapshot = pre.sizes
    /\ x_ = pre.x
    /\ y_ = pre.y

C4_Witness ==
  /\ pc = "done"
  /\ exit_path = "too_few"
  /\ Len(ref_points_) = 2
  /\ num_of_points_ = 4
  /\ Len(x_) = 4

\* C5: when CHECK_EQ(col_num, num_of_pos_variables_) is reached, col_num is
\* 2N, for every N >= 3.
C5_ColumnCounterIs2N ==
  KernelRan => col_num = 2 * Len(ref_points_)

C7_SetupArraysConsistent ==
  ProblemBuilt =>
    LET n == 3 * Len(ref_points_) - 2
        m == 4 * Len(ref_points_) - 4
    IN  /\ Len(P_indptr) = n + 1
        /\ Len(A_indptr) = n + 1
        /\ Len(q) = n
        /\ Len(lower_bounds) = m
        /\ Len(upper_bounds) = m
        /\ \A k \in 1..Len(A_indices) : A_indices[k] \in 0..(m - 1)

\* C8: the warm start of every re-solve is the primal solution of the solve
\* before it.
C8_WarmStartIsPreviousSolution ==
  resolves >= 1 => warm_arg = prev_solution

\* C9: row 2N + j, the identity row of slack variable j, has upper bound 1.0
\* and lower bound -1e20.
C9_SlackRowsBounded ==
  ProblemBuilt =>
    \A j \in 0..(Len(ref_points_) - 3) :
      /\ upper_bounds[2 * Len(ref_points_) + j + 1] = 1
      /\ lower_bounds[2 * Len(ref_points_) + j + 1] = kLargeNegative

\* The quadratic form of C10 over the points: coefficient of p_a in the
\* second difference at i, and in the first difference from i to i+1.
SecondDiff(i, a) == IF a = i THEN -2 ELSE IF a = i - 1 \/ a = i + 1 THEN 1 ELSE 0
FirstDiff(i, a) == IF a = i + 1 THEN 1 ELSE IF a = i THEN -1 ELSE 0

RECURSIVE FemSum(_, _, _, _)
FemSum(i, hi, a, b) ==
  IF i > hi THEN 0
  ELSE SecondDiff(i, a) * SecondDiff(i, b) + FemSum(i + 1, hi, a, b)

RECURSIVE LenSum(_, _, _, _)
LenSum(i, hi, a, b) ==
  IF i > hi THEN 0
  ELSE FirstDiff(i, a) * FirstDiff(i, b) + LenSum(i + 1, hi, a, b)

\* Entry (r, c) of H for N points; variable 2a is x_a, variable 2a+1 is y_a.
QuadraticFormH(r, c, N) ==
  IF r % 2 # c % 2 THEN 0
  ELSE LET a == r \div 2
           b == c \div 2
       IN  weight_fem_pos_deviation_ * FemSum(1, N - 2, a, b)
             + weight_path_length_ * LenSum(0, N - 2, a, b)
             + (IF a = b THEN weight_ref_deviation_ ELSE 0)

\* Positions in P_data of the entries of column c, and the value stored at
\* (r, c): 0 where no entry is stored.
ColumnSlots(c) == (P_indptr[c + 1] + 1)..P_indptr[c + 2]
StoredAt(r, c) ==
  LET hits == {k \in ColumnSlots(c) : P_indices[k] = r}
  IN  IF hits = {} THEN 0 ELSE P_data[CHOOSE k \in hits : TRUE]

\* C10: the entries CalculateKernel emits are the upper triangle of 2H over
\* the 2N position columns, rows increasing in each column, one entry per
\* position, and nothing in the slack columns.
C10_KernelIsUpperTriangleOf2H ==
  KernelRan =>
    LET N == Len(ref_points_)
    IN  /\ Len(P_indptr) >= 2 * N + 1
        /\ Len(P_data) = Len(P_indices)
        /\ P_indptr[2 * N + 1] = Len(P_data)
        /\ \A c \in 0..(2 * N - 1) :
             /\ \A k \in ColumnSlots(c) : P_indices[k] \in 0..c
             /\ \A k1, k2 \in ColumnSlots(c) :
                  k1 < k2 => P_indices[k1] < P_indices[k2]
             /\ \A r \in 0..c : StoredAt(r, c) = 2 * QuadraticFormH(r, c, N)


====
